---- MODULE Spec2Model ----
(***************************************************************************)
(* Model of the episode controller of the cyber attack simulator           *)
(* (cyber_attack_simulator/envs/environment.py): reset(), step() and the   *)
(* helpers _update_state, _update_reachable and _is_goal, over a ground    *)
(* truth Network and a State (agent observation) object.                   *)
(***************************************************************************)
EXTENDS Integers, Sequences, FiniteSets, TLC

\* Default rewards (environment.py lines 13-14).
R_SENSITIVE == 1000
R_USER == 1000

\* Bounds of the model.
NumServices == 2      \* config["services"]
MaxResets == 3        \* cap on reset_count
MaxCost == 2          \* action costs are drawn from 1..MaxCost

\* Success probability (percent) used for the stochastic construction.
StochasticProb == 50

-----------------------------------------------------------------------------
(* The configuration the environment is constructed from.                  *)

\* Machines per subnet, subnet ids 0..4 (TLA+ sequences are 1-based).
subnets == <<1, 1, 2, 1, 1>>

Subnets == 0 .. (Len(subnets) - 1)

\* Subnets 0, 1, 2 fully connected, then a chain 2 - 3 - 4.
Links == {{0, 1}, {0, 2}, {1, 2}, {2, 3}, {3, 4}}

topology == [a \in Subnets |-> [b \in Subnets |-> (a = b) \/ ({a, b} \in Links)]]

RECURSIVE AddressesFrom(_)
AddressesFrom(s) ==
    IF s >= Len(subnets) THEN <<>>
    ELSE [h \in 1 .. subnets[s + 1] |-> <<s, h - 1>>] \o AddressesFrom(s + 1)

\* Network.get_address_space(): ordered, subnet by subnet.
address_space == AddressesFrom(0)

Addresses == {address_space[i] : i \in 1 .. Len(address_space)}

Services == 0 .. (NumServices - 1)

\* Ground truth vulnerability of machine m to service s.
Vulnerable(m, s) == ((m[1] + m[2] + s) % 3) # 1

\* Rewarded machines: the sensitive machine and one user machine.
SensitiveAddress == <<1, 0>>
UserAddress == <<2, 1>>

MachineValue(m) ==
    IF m = SensitiveAddress THEN R_SENSITIVE
    ELSE IF m = UserAddress THEN R_USER
    ELSE 0

\* Network(config, seed): the ground truth built at construction.
Network ==
    [subnets  |-> subnets,
     topology |-> topology,
     exposed  |-> [s \in Subnets |-> s = 0],
     machines |-> [m \in Addresses |->
                     [services |-> [s \in 1 .. NumServices |-> Vulnerable(m, s - 1)],
                      value    |-> MachineValue(m)]]]

-----------------------------------------------------------------------------
VARIABLES
    network,        \* self.network
    exploit_probs,  \* self.exploit_probs, in percent
    reset_count,    \* self.reset_count
    current_state,  \* contents of the State object self.current_state refers to
    ret,            \* what the last call returned to the caller
    last,           \* the last call and the locals of step()
    held,           \* an observation the caller kept from an earlier call: whether
                    \* it is the environment's own State object, and whether its
                    \* contents changed since it was returned
    paid            \* per machine, the steps of this episode that paid its reward

vars == <<network, exploit_probs, reset_count, current_state, ret, last, held, paid>>

-----------------------------------------------------------------------------
(* Network queries.                                                        *)

subnet_exposed(net, s) == net.exposed[s]

subnets_connected(net, a, b) == net.topology[a][b]

get_sensitive_machines(net) == {m \in DOMAIN net.machines : net.machines[m].value # 0}

\* Network.perform_action: (success, value, services); draw is the Bernoulli
\* outcome used when the attacked service is vulnerable.
perform_action(net, action, draw) ==
    LET machine == net.machines[action.target] IN
    IF action.type = "scan"
    THEN [success |-> TRUE, value |-> 0, services |-> machine.services]
    ELSE IF machine.services[action.service + 1] /\ draw
         THEN [success |-> TRUE, value |-> machine.value, services |-> machine.services]
         ELSE [success |-> FALSE, value |-> 0, services |-> <<>>]

\* Outcomes of the Bernoulli draw for an action's success probability.
Draws(prob) == IF prob >= 100 THEN {TRUE} ELSE {TRUE, FALSE}

\* Action.generate_action_space(address_space, services, exploit_probs),
\* with every cost the caller may configure.
action_space(probs) ==
    [target : Addresses, type : {"scan"}, service : {-1},
     cost : 1 .. MaxCost, prob : {100}]
    \cup
    [target : Addresses, type : {"exploit"}, service : Services,
     cost : 1 .. MaxCost, prob : {probs}]

is_scan(action) == action.type = "scan"

-----------------------------------------------------------------------------
(* State (the agent's observation).                                        *)

reachable(state, m) == state[m].reachable

compromised(state, m) == state[m].compromised

update_service(state, m, s, val) ==
    [state EXCEPT ![m].service_info[s + 1] = val]

set_compromised(state, m) == [state EXCEPT ![m].compromised = TRUE]

set_reachable(state, m) == [state EXCEPT ![m].reachable = TRUE]

\* A reference handed to the caller: either the State object the environment
\* itself holds (alias), or a separate object with its own contents.
Alias == [alias |-> TRUE]

\* State.copy(): a new, independent object.
copy(state) == [alias |-> FALSE, val |-> state]

\* The contents a reference shows now.
Deref(ref) == IF ref.alias THEN current_state ELSE ref.val

-----------------------------------------------------------------------------
(* The episode controller.                                                 *)

InitialServiceInfo == [s \in 1 .. NumServices |-> "unknown"]

\* Mutant: the exposure test reads the host id (m[1]) for the subnet id (m[0]).
reset_by_host(net) ==
    [m \in Addresses |->
        [compromised  |-> FALSE,
         reachable    |-> subnet_exposed(net, m[2]),
         service_info |-> InitialServiceInfo]]

\* reset(): the fresh observation built from the address space.
reset(net) ==
    [m \in Addresses |->
        [compromised  |-> FALSE,
         reachable    |-> subnet_exposed(net, m[1]),
         service_info |-> InitialServiceInfo]]

\* Mutant: the loop leaves at the first reachable address (break for continue).
RECURSIVE UpdateReachableFromBreak(_, _, _, _)
UpdateReachableFromBreak(state, net, comp_subnet, i) ==
    IF i > Len(address_space) THEN state
    ELSE LET m == address_space[i] IN
         IF reachable(state, m)
         THEN state
         ELSE IF subnets_connected(net, comp_subnet, m[1])
              THEN UpdateReachableFromBreak(set_reachable(state, m), net, comp_subnet, i + 1)
              ELSE UpdateReachableFromBreak(state, net, comp_subnet, i + 1)

\* _update_reachable: the loop over the address space from position i on.
RECURSIVE UpdateReachableFrom(_, _, _, _)
UpdateReachableFrom(state, net, comp_subnet, i) ==
    IF i > Len(address_space) THEN state
    ELSE LET m == address_space[i] IN
         IF reachable(state, m)
         THEN UpdateReachableFrom(state, net, comp_subnet, i + 1)
         ELSE IF subnets_connected(net, comp_subnet, m[1])
              THEN UpdateReachableFrom(set_reachable(state, m), net, comp_subnet, i + 1)
              ELSE UpdateReachableFrom(state, net, comp_subnet, i + 1)

\* Mutant: reachability is recomputed from the newly compromised machine alone.
_update_reachable_recompute(state, net, compromised_m) ==
    [m \in DOMAIN state |->
        [state[m] EXCEPT !.reachable = subnets_connected(net, compromised_m[1], m[1])]]

\* Mutant: the connection test is dropped, every address becomes reachable.
_update_reachable_everywhere(state, net, compromised_m) ==
    [m \in DOMAIN state |-> [state[m] EXCEPT !.reachable = TRUE]]

_update_reachable(state, net, compromised_m) ==
    UpdateReachableFrom(state, net, compromised_m[1], 1)

\* Mutant: the loop runs over range(len(services) - 1).
RECURSIVE UpdateServicesFromShort(_, _, _, _)
UpdateServicesFromShort(state, target, services, s) ==
    IF s >= Len(services) - 1 THEN state
    ELSE LET new_state == IF services[s + 1] THEN "present" ELSE "absent" IN
         UpdateServicesFromShort(update_service(state, target, s, new_state),
                                 target, services, s + 1)

\* Mutant: present and absent are swapped.
RECURSIVE UpdateServicesFromSwapped(_, _, _, _)
UpdateServicesFromSwapped(state, target, services, s) ==
    IF s >= Len(services) THEN state
    ELSE LET new_state == IF services[s + 1] THEN "absent" ELSE "present" IN
         UpdateServicesFromSwapped(update_service(state, target, s, new_state),
                                   target, services, s + 1)

\* The loop of _update_state over range(len(services)), from index s on.
RECURSIVE UpdateServicesFrom(_, _, _, _)
UpdateServicesFrom(state, target, services, s) ==
    IF s >= Len(services) THEN state
    ELSE LET new_state == IF services[s + 1] THEN "present" ELSE "absent" IN
         UpdateServicesFrom(update_service(state, target, s, new_state),
                            target, services, s + 1)

\* Mutant: an unsuccessful exploit marks every service of the target absent.
_update_state_failure_wipes(state, net, action, success, services) ==
    LET target == action.target IN
    IF is_scan(action) \/ (~is_scan(action) /\ success)
    THEN LET revealed == UpdateServicesFrom(state, target, services, 0) IN
         IF ~is_scan(action)
         THEN _update_reachable(set_compromised(revealed, target), net, target)
         ELSE revealed
    ELSE [state EXCEPT ![target].service_info =
             [s \in 1 .. NumServices |-> "absent"]]

\* Mutant: a successful exploit records the attacked service only.
_update_state_attacked_only(state, net, action, success, services) ==
    LET target == action.target IN
    IF is_scan(action)
    THEN UpdateServicesFrom(state, target, services, 0)
    ELSE IF success
    THEN _update_reachable(
             set_compromised(update_service(state, target, action.service, "present"),
                             target), net, target)
    ELSE update_service(state, target, action.service, "absent")

_update_state(state, net, action, success, services) ==
    LET target == action.target IN
    IF is_scan(action) \/ (~is_scan(action) /\ success)
    THEN LET revealed == UpdateServicesFrom(state, target, services, 0) IN
         IF ~is_scan(action)
         THEN _update_reachable(set_compromised(revealed, target), net, target)
         ELSE revealed
    ELSE update_service(state, target, action.service, "absent")

\* Mutant: the goal test stops at the first compromised goal machine.
_is_goal_any(state, net) ==
    \E sensitive_m \in get_sensitive_machines(net) : compromised(state, sensitive_m)

_is_goal(state, net) ==
    \A sensitive_m \in get_sensitive_machines(net) : compromised(state, sensitive_m)

\* Mutant: step() without the reachability gate.
step_no_gate(state, net, action, draw) ==
    LET res   == perform_action(net, action, draw)
        value == IF compromised(state, action.target) THEN 0 ELSE res.value
        new   == _update_state(state, net, action, res.success, res.services)
    IN  [network |-> net, state |-> new,
         obs |-> copy(new), reward |-> value - action.cost,
         done |-> _is_goal(new, net),
         acted |-> TRUE, success |-> res.success, value |-> value]

\* Mutant: step() without zeroing the value of an already compromised target.
step_pays_again(state, net, action, draw) ==
    IF ~reachable(state, action.target)
    THEN [network |-> net, state |-> state,
          obs |-> Alias, reward |-> 0 - action.cost, done |-> FALSE,
          acted |-> FALSE, success |-> FALSE, value |-> 0]
    ELSE LET res   == perform_action(net, action, draw)
             value == res.value
             new   == _update_state(state, net, action, res.success, res.services)
         IN  [network |-> net, state |-> new,
              obs |-> copy(new), reward |-> value - action.cost,
              done |-> _is_goal(new, net),
              acted |-> TRUE, success |-> res.success, value |-> value]

\* Mutant: step() pays a reward once by clearing the machine's value in the network.
step_spends_value(state, net, action, draw) ==
    IF ~reachable(state, action.target)
    THEN [network |-> net, state |-> state,
          obs |-> Alias, reward |-> 0 - action.cost, done |-> FALSE,
          acted |-> FALSE, success |-> FALSE, value |-> 0]
    ELSE LET res   == perform_action(net, action, draw)
             value == res.value
             new   == _update_state(state, net, action, res.success, res.services)
         IN  [network |-> IF res.success /\ ~is_scan(action)
                          THEN [net EXCEPT !.machines[action.target].value = 0]
                          ELSE net,
              state |-> new,
              obs |-> copy(new), reward |-> value - action.cost,
              done |-> _is_goal(new, net),
              acted |-> TRUE, success |-> res.success, value |-> value]

\* Mutant: step() testing "already compromised" after the state update.
step_zero_after_update(state, net, action, draw) ==
    IF ~reachable(state, action.target)
    THEN [network |-> net, state |-> state,
          obs |-> Alias, reward |-> 0 - action.cost, done |-> FALSE,
          acted |-> FALSE, success |-> FALSE, value |-> 0]
    ELSE LET res   == perform_action(net, action, draw)
             new   == _update_state(state, net, action, res.success, res.services)
             value == IF compromised(new, action.target) THEN 0 ELSE res.value
         IN  [network |-> net, state |-> new,
              obs |-> copy(new), reward |-> value - action.cost,
              done |-> _is_goal(new, net),
              acted |-> TRUE, success |-> res.success, value |-> value]

\* step(action): the network and State contents after the call, the returned
\* triple, and the locals success and value.
step(state, net, action, draw) ==
    IF ~reachable(state, action.target)
    THEN [network |-> net, state |-> state,
          obs |-> Alias, reward |-> 0 - action.cost, done |-> FALSE,
          acted |-> FALSE, success |-> FALSE, value |-> 0]
    ELSE LET res   == perform_action(net, action, draw)
             value == IF compromised(state, action.target) THEN 0 ELSE res.value
             new   == _update_state(state, net, action, res.success, res.services)
         IN  [network |-> net, state |-> new,
              obs |-> copy(new), reward |-> value - action.cost,
              done |-> _is_goal(new, net),
              acted |-> TRUE, success |-> res.success, value |-> value]

-----------------------------------------------------------------------------
NoPay == [m \in Addresses |-> 0]

NotHeld == [has |-> FALSE]

\* __init__(config, exploit_probs): builds the network and calls reset().
InitWith(probs) ==
    /\ network = Network
    /\ exploit_probs \in probs
    /\ reset_count = 1
    /\ current_state = reset(Network)
    /\ ret = [op |-> "init"]
    /\ last = [op |-> "init"]
    /\ held = NotHeld
    /\ paid = NoPay

Init == InitWith({100})

InitStochastic == InitWith({StochasticProb})

Reset ==
    /\ reset_count < MaxResets
    /\ current_state' = reset(network)
    /\ reset_count' = reset_count + 1
    /\ ret' = [op |-> "reset", obs |-> copy(reset(network))]
    /\ last' = [op |-> "reset"]
    /\ held' = IF held.has THEN [held EXCEPT !.alias = FALSE] ELSE held
    /\ paid' = NoPay
    /\ UNCHANGED <<network, exploit_probs>>

Step(action, draw) ==
    \E r \in {step(current_state, network, action, draw)} :
    /\ network' = r.network
    /\ current_state' = r.state
    /\ ret' = [op |-> "step", obs |-> r.obs, reward |-> r.reward, done |-> r.done]
    /\ last' = [op |-> "step", action |-> action, acted |-> r.acted,
                success |-> r.success, value |-> r.value]
    /\ held' = IF held.has /\ held.alias /\ r.state # current_state
               THEN [held EXCEPT !.changed = TRUE]
               ELSE held
    /\ paid' = IF r.reward + action.cost > 0
               THEN [paid EXCEPT ![action.target] = @ + 1]
               ELSE paid
    /\ UNCHANGED <<exploit_probs, reset_count>>

\* The caller keeps the observation the last call returned.
Hold ==
    /\ ret.op # "init"
    /\ held' = [has |-> TRUE, alias |-> ret.obs.alias, changed |-> FALSE]
    /\ UNCHANGED <<network, exploit_probs, reset_count, current_state, ret, last, paid>>

Next ==
    \/ Reset
    \/ \E action \in action_space(exploit_probs) :
         \E draw \in Draws(action.prob) : Step(action, draw)

Spec == Init /\ [][Next]_vars

NextHold == Next \/ Hold

SpecHold == Init /\ [][NextHold]_vars

\* The environment constructed with a success probability below 1.0.
SpecStochastic == InitStochastic /\ [][Next]_vars

\* One episode with exploits that succeed with probability StochasticProb:
\* steps of unit cost, no further reset.
NextEpisode ==
    \E action \in {a \in action_space(exploit_probs) : a.cost = 1} :
        \E draw \in Draws(action.prob) : Step(action, draw)

SpecEpisode == InitStochastic /\ [][NextEpisode]_vars

\* An environment built with either kind of exploits: deterministic
\* (probability 100) or succeeding with StochasticProb.
InitEitherMode == InitWith({100, StochasticProb})

\* With deterministic exploits every call is taken; with stochastic exploits
\* the run is cut down to the first episode's steps of unit cost against the
\* exposed subnets.
NextEitherMode ==
    \/ exploit_probs = 100 /\ Next
    \/ /\ exploit_probs < 100
       /\ \E action \in {a \in action_space(exploit_probs) :
                           a.cost = 1 /\ subnet_exposed(network, a.target[1])} :
             \E draw \in Draws(action.prob) : Step(action, draw)

SpecEitherMode == InitEitherMode /\ [][NextEitherMode]_vars

-----------------------------------------------------------------------------
(* The network on its own, as test_network.py builds and queries it.       *)

\* Bounds of the generated networks.
MinMachines == 3      \* from_params: "minimum is 3"
MaxMachines == 23

\* Machines of a full user subnet.
USER_SUBNET_SIZE == 5

\* Subnet sizes for num_machines machines: one exposed machine, one
\* sensitive machine, full user subnets, then a subnet of the remainder.
generate_subnets(num_machines) ==
    LET users == num_machines - 2
        full  == [i \in 1 .. (users \div USER_SUBNET_SIZE) |-> USER_SUBNET_SIZE]
        rest  == users % USER_SUBNET_SIZE
    IN  <<1, 1>> \o full \o (IF rest # 0 THEN <<rest>> ELSE <<>>)

\* Mutant: the user subnets form a chain.
TreeParentChain(s) == s - 1

\* Parent of user subnet s > 2 in the binary tree rooted at subnet 2.
TreeParent(s) == 2 + ((s - 3) \div 2)

\* Mutant: a later subnet is linked to its parent in one direction only.
generate_topology_one_way(sizes) ==
    LET n == Len(sizes) IN
    [r \in 1 .. n |->
        [c \in 1 .. (n + 1) |->
            LET a == r - 1
                b == c - 2
            IN  IF c = 1 THEN (IF a = 0 THEN 1 ELSE 0)
                ELSE IF a = b THEN 1
                ELSE IF a <= 2 /\ b <= 2 THEN 1
                ELSE IF a > 2 /\ TreeParent(a) = b THEN 1
                ELSE 0]]

\* Mutant: subnets with the same parent are linked to each other as well.
generate_topology_siblings(sizes) ==
    LET n == Len(sizes) IN
    [r \in 1 .. n |->
        [c \in 1 .. (n + 1) |->
            LET a == r - 1
                b == c - 2
            IN  IF c = 1 THEN (IF a = 0 THEN 1 ELSE 0)
                ELSE IF a = b THEN 1
                ELSE IF a <= 2 /\ b <= 2 THEN 1
                ELSE IF a > 2 /\ TreeParent(a) = b THEN 1
                ELSE IF b > 2 /\ TreeParent(b) = a THEN 1
                ELSE IF a > 2 /\ b > 2 /\ TreeParent(a) = TreeParent(b) THEN 1
                ELSE 0]]

\* The adjacency matrix: one row per subnet; column 1 is the internet,
\* column j + 2 is subnet j.  Subnet 0 is exposed, subnets 0, 1, 2 are fully
\* connected, every later subnet is connected to itself and its tree parent.
generate_topology(sizes) ==
    LET n == Len(sizes) IN
    [r \in 1 .. n |->
        [c \in 1 .. (n + 1) |->
            LET a == r - 1
                b == c - 2
            IN  IF c = 1 THEN (IF a = 0 THEN 1 ELSE 0)
                ELSE IF a = b THEN 1
                ELSE IF a <= 2 /\ b <= 2 THEN 1
                ELSE IF a > 2 /\ TreeParent(a) = b THEN 1
                ELSE IF b > 2 /\ TreeParent(b) = a THEN 1
                ELSE 0]]

\* The addresses of a network with the given subnet sizes.
AddressesOf(sizes) ==
    {<<s, h>> : s \in 0 .. (Len(sizes) - 1), h \in 0 .. (USER_SUBNET_SIZE - 1)}
      \cap {m \in (0 .. (Len(sizes) - 1)) \X (0 .. (USER_SUBNET_SIZE - 1)) :
              m[2] < sizes[m[1] + 1]}

\* Network(generate_config(num_machines, num_services)).
GeneratedNetwork(num_machines) ==
    LET sizes  == generate_subnets(num_machines)
        matrix == generate_topology(sizes)
        ids    == 0 .. (Len(sizes) - 1)
        user_m == <<Len(sizes) - 1, sizes[Len(sizes)] - 1>>
    IN  [subnets  |-> sizes,
         topology |-> [a \in ids |-> [b \in ids |-> matrix[a + 1][b + 2] = 1]],
         exposed  |-> [s \in ids |-> matrix[s + 1][1] = 1],
         machines |-> [m \in AddressesOf(sizes) |->
                         [services |-> [s \in 1 .. NumServices |-> Vulnerable(m, s - 1)],
                          value    |-> IF m = <<1, 0>> THEN R_SENSITIVE
                                       ELSE IF m = user_m THEN R_USER
                                       ELSE 0]]]

NumMachines(net) == Cardinality(DOMAIN net.machines)

\* Mutant: the service index of an exploit is not checked.
valid_action_any_service(net, action) ==
    /\ action.target[1] \in 0 .. (Len(net.subnets) - 1)
    /\ action.target[2] \in 0 .. (net.subnets[action.target[1] + 1] - 1)

\* The assertions Network.perform_action makes on its input.
valid_action(net, action) ==
    /\ action.target[1] \in 0 .. (Len(net.subnets) - 1)
    /\ action.target[2] \in 0 .. (net.subnets[action.target[1] + 1] - 1)
    /\ is_scan(action) \/ action.service \in Services

\* A call of Network.perform_action: an AssertionError or the outcome.
perform_action_call(net, action, draw) ==
    IF ~valid_action(net, action)
    THEN [op |-> "perform_action", raised |-> "AssertionError"]
    ELSE [op |-> "perform_action", raised |-> "none",
          outcome |-> IF is_scan(action) \/ action.service \in Services
                      THEN perform_action(net, action, draw)
                      ELSE [success |-> FALSE, value |-> 0, services |-> <<>>]]

\* The actions a caller can hand to perform_action of this network, well
\* formed or not.
AnyActions(net) ==
    [target : (0 .. Len(net.subnets)) \X (0 .. USER_SUBNET_SIZE),
     type : {"scan"}, service : {-1}, cost : {1}, prob : {100}]
    \cup
    [target : (0 .. Len(net.subnets)) \X (0 .. USER_SUBNET_SIZE),
     type : {"exploit"}, service : (-1) .. (NumServices + 1),
     cost : {1}, prob : {100}]

\* setUp of the network tests: a generated network of MinMachines machines and
\* no environment.
InitNetwork ==
    /\ network = GeneratedNetwork(MinMachines)
    /\ exploit_probs = 100
    /\ reset_count = 0
    /\ current_state = <<>>
    /\ ret = [op |-> "init"]
    /\ last = [op |-> "init"]
    /\ held = NotHeld
    /\ paid = NoPay

\* get_network(nM, nS): another generated network.
Generate(num_machines) ==
    /\ network' = GeneratedNetwork(num_machines)
    /\ last' = [op |-> "generate", num_machines |-> num_machines]
    /\ ret' = [op |-> "generate"]
    /\ UNCHANGED <<exploit_probs, reset_count, current_state, held, paid>>

PerformAction(action, draw) ==
    /\ last' = [op |-> "perform_action", action |-> action]
    /\ ret' = perform_action_call(network, action, draw)
    /\ UNCHANGED <<network, exploit_probs, reset_count, current_state, held, paid>>

NextNetwork ==
    \/ \E num_machines \in MinMachines .. MaxMachines : Generate(num_machines)
    \/ \E action \in AnyActions(network) :
         \E draw \in Draws(action.prob) : PerformAction(action, draw)

SpecNetwork == InitNetwork /\ [][NextNetwork]_vars

-----------------------------------------------------------------------------
(* The depth of the subnets of a topology matrix.                           *)

\* Subnets of the enumerated topology matrices.
DepthSubnets == 4

\* Depth of a subnet no exposed subnet leads to.
Unreached == -1

\* The subnets whose internet column is set.
ExposedRows(matrix) == {s \in 0 .. (Len(matrix) - 1) : matrix[s + 1][1] = 1}

RECURSIVE RelaxChildren(_, _, _, _, _)
\* One parent taken from the queue: every child the parent's row leads to and
\* whose depth is larger than the parent's plus one gets that depth and
\* joins the queue.
RelaxChildren(matrix, depths, queue, parent, child) ==
    IF child >= Len(matrix) THEN [depths |-> depths, queue |-> queue]
    ELSE IF /\ matrix[parent + 1][child + 2] = 1
            /\ \/ depths[child + 1] = Unreached
               \/ depths[child + 1] > depths[parent + 1] + 1
         THEN RelaxChildren(matrix,
                            [depths EXCEPT ![child + 1] = depths[parent + 1] + 1],
                            <<child>> \o queue, parent, child + 1)
         ELSE RelaxChildren(matrix, depths, queue, parent, child + 1)

RECURSIVE DepthsFrom(_, _, _)
\* The traversal: parents leave the queue at its right end.
DepthsFrom(matrix, depths, queue) ==
    IF queue = <<>> THEN depths
    ELSE LET parent == queue[Len(queue)]
             r == RelaxChildren(matrix, depths,
                                SubSeq(queue, 1, Len(queue) - 1), parent, 0)
         IN  DepthsFrom(matrix, r.depths, r.queue)

RECURSIVE InitialQueue(_, _)
\* The exposed subnets, each pushed at the left end in index order.
InitialQueue(matrix, s) ==
    IF s >= Len(matrix) THEN <<>>
    ELSE (IF matrix[s + 1][1] = 1 THEN InitialQueue(matrix, s + 1) \o <<s>>
          ELSE InitialQueue(matrix, s + 1))

\* Mutant: the traversal starts from the first exposed subnet only.
min_subnet_depth_first_exposed(matrix) ==
    LET first == CHOOSE s \in ExposedRows(matrix) :
                     \A x \in ExposedRows(matrix) : s <= x
    IN  IF ExposedRows(matrix) = {}
        THEN [s \in 1 .. Len(matrix) |-> Unreached]
        ELSE DepthsFrom(matrix,
                        [s \in 1 .. Len(matrix) |->
                            IF s - 1 = first THEN 0 ELSE Unreached],
                        <<first>>)

\* min_subnet_depth(matrix): the depth of every subnet, in subnet order.
min_subnet_depth(matrix) ==
    DepthsFrom(matrix,
               [s \in 1 .. Len(matrix) |->
                   IF matrix[s][1] = 1 THEN 0 ELSE Unreached],
               InitialQueue(matrix, 0))

\* The topology matrix with the given exposed subnets and undirected links.
MatrixOf(n, exposed, links) ==
    [r \in 1 .. n |->
        [c \in 1 .. (n + 1) |->
            IF c = 1 THEN (IF (r - 1) \in exposed THEN 1 ELSE 0)
            ELSE IF r - 1 = c - 2 \/ {r - 1, c - 2} \in links THEN 1 ELSE 0]]

\* The matrix of the depth test.
TestTopology ==
    << <<1, 1, 1, 1, 0, 0, 0, 0>>,
       <<0, 1, 1, 1, 0, 0, 0, 0>>,
       <<0, 1, 1, 1, 1, 0, 0, 1>>,
       <<0, 0, 0, 1, 1, 1, 1, 1>>,
       <<1, 0, 0, 0, 1, 1, 0, 0>>,
       <<0, 0, 0, 0, 1, 0, 1, 0>>,
       <<0, 0, 0, 1, 0, 0, 0, 1>> >>

\* The matrices handed to min_subnet_depth: every reflexive symmetric matrix
\* over DepthSubnets subnets with any set of exposed subnets, the generated
\* topologies, and the matrix of the test.
Topologies ==
    {MatrixOf(DepthSubnets, exposed, links) :
        exposed \in SUBSET (0 .. (DepthSubnets - 1)),
        links \in SUBSET {l \in SUBSET (0 .. (DepthSubnets - 1)) : Cardinality(l) = 2}}
    \cup {generate_topology(generate_subnets(n)) : n \in MinMachines .. MaxMachines}
    \cup {TestTopology}

InitDepth ==
    /\ network = Network
    /\ exploit_probs = 100
    /\ reset_count = 0
    /\ current_state = <<>>
    /\ ret = [op |-> "init"]
    /\ \E matrix \in Topologies : last = [op |-> "topology", topology |-> matrix]
    /\ held = NotHeld
    /\ paid = NoPay

MinSubnetDepth ==
    /\ last.op = "topology"
    /\ last' = [op |-> "min_subnet_depth", topology |-> last.topology]
    /\ ret' = [op |-> "min_subnet_depth", depths |-> min_subnet_depth(last.topology)]
    /\ UNCHANGED <<network, exploit_probs, reset_count, current_state, held, paid>>

NextDepth == MinSubnetDepth

SpecDepth == InitDepth /\ [][NextDepth]_vars

-----------------------------------------------------------------------------
(* Vocabulary of the properties.                                           *)

\* The goal addresses of the configuration: every address with nonzero reward.
GoalAddresses == {m \in Addresses : MachineValue(m) # 0}

AllGoalsCompromised(obs) == \A m \in GoalAddresses : obs[m].compromised

\* The ground truth as a belief vector.
TrueBeliefs(m) ==
    [s \in 1 .. NumServices |-> IF Vulnerable(m, s - 1) THEN "present" ELSE "absent"]

\* The observation a fresh episode starts from.
InitialObservation ==
    [m \in Addresses |->
        [compromised  |-> FALSE,
         reachable    |-> (m[1] = 0),
         service_info |-> [s \in 1 .. NumServices |-> "unknown"]]]

\* The contents of the observation the last call returned.
Returned == Deref(ret.obs)

\* This transition is a call of step(); last' holds its action.
IsStep == last'.op = "step"

Target == last'.action.target

Cost == last'.action.cost

IsExploit == last'.action.type = "exploit"

-----------------------------------------------------------------------------
\* C1: an observation returned by an earlier reset() or step() is never
\* changed by a later step or reset.
HeldObservationNeverChanges == held.has => ~held.changed

\* C2 (as stated): after every step, done is true iff every goal address is
\* compromised in the observation after the step.
DoneIffAllGoalsCompromised ==
    ret.op = "step" => (ret.done <=> AllGoalsCompromised(Returned))

\* C2 (amended): done is true iff the target was reachable and every goal
\* address is compromised in the observation after the step; for an
\* unreachable target done is false.
DoneIffReachableAndAllGoalsCompromised ==
    ret.op = "step" =>
        (ret.done <=> (Returned[last.action.target].reachable
                       /\ AllGoalsCompromised(Returned)))

DoneReached ==
    /\ ret.op = "step"
    /\ ret.done
    /\ AllGoalsCompromised(Returned)
    /\ Returned[last.action.target].reachable

\* C3: a step on an unreachable target returns reward -cost and done = false
\* and leaves the whole observation unchanged.
UnreachableStepChangesNothing ==
    [][(IsStep /\ ~current_state[Target].reachable) =>
          /\ ret'.reward = 0 - Cost
          /\ ret'.done = FALSE
          /\ current_state' = current_state
          /\ Returned' = current_state]_vars

UnreachableStepTaken ==
    /\ last.op = "step"
    /\ ~current_state[last.action.target].reachable
    /\ ret.reward = 0 - last.action.cost
    /\ \E m \in Addresses : current_state[m].compromised

\* C4: a step whose target was already compromised returns reward -cost, and
\* no machine's reward is paid by more than one step of an episode.
RewardPaidAtMostOnce ==
    [][/\ (IsStep /\ current_state[Target].compromised) => ret'.reward = 0 - Cost
       /\ \A m \in Addresses : paid'[m] <= 1]_vars

RewardedMachineExploitedAgain ==
    /\ last.op = "step"
    /\ last.action.type = "exploit"
    /\ last.success
    /\ MachineValue(last.action.target) > 0
    /\ paid[last.action.target] = 1
    /\ ret.reward = 0 - last.action.cost

\* C5: the first successful exploit of a reachable, not yet compromised
\* machine returns the machine's reward value minus the cost.
FirstExploitPaysMachineValue ==
    [][(/\ IsStep /\ IsExploit /\ last'.success
        /\ current_state[Target].reachable
        /\ ~current_state[Target].compromised) =>
          ret'.reward =
              (IF Target = SensitiveAddress THEN R_SENSITIVE
               ELSE IF Target = UserAddress THEN R_USER
               ELSE 0) - Cost]_vars

SensitiveAndUserRewardPaid ==
    /\ last.op = "step"
    /\ last.action.target = UserAddress
    /\ ret.reward = R_USER - last.action.cost
    /\ paid[SensitiveAddress] = 1
    /\ current_state[<<0, 0>>].compromised

\* C6 (as stated): a scan of a reachable address returns reward 0 - cost and
\* done = false and sets every service belief of the address to the ground truth.
ScanReturnsNotDone ==
    [][(IsStep /\ ~IsExploit /\ current_state[Target].reachable) =>
          /\ ret'.reward = 0 - Cost
          /\ ret'.done = FALSE
          /\ Returned'[Target].service_info = TrueBeliefs(Target)]_vars

\* C6 (amended): a scan of a reachable address returns reward 0 - cost, sets
\* every service belief of the address to the ground truth, and returns
\* done = false unless every goal address is already compromised.
ScanRevealsGroundTruth ==
    [][(IsStep /\ ~IsExploit /\ current_state[Target].reachable) =>
          /\ ret'.reward = 0 - Cost
          /\ ret'.done = AllGoalsCompromised(current_state)
          /\ Returned'[Target].service_info = TrueBeliefs(Target)
          /\ current_state'[Target].service_info = TrueBeliefs(Target)]_vars

ScanAfterFailedExploit ==
    /\ last.op = "step"
    /\ last.action.type = "scan"
    /\ last.action.target = <<1, 0>>
    /\ ret.reward = 0 - last.action.cost
    /\ ~ret.done
    /\ Returned[<<1, 0>>].service_info = <<"absent", "present">>
    /\ ~Returned[<<1, 0>>].compromised

\* C7: a successful exploit in subnet A makes every address of every subnet
\* connected to A reachable and no address of a subnet not connected to A;
\* any other step makes no address reachable.
ReachabilityPropagationExact ==
    [][IsStep =>
         IF IsExploit /\ last'.success
         THEN \A m \in Addresses :
                /\ topology[Target[1]][m[1]] => current_state'[m].reachable
                /\ (~current_state[m].reachable /\ ~topology[Target[1]][m[1]])
                      => ~current_state'[m].reachable
         ELSE \A m \in Addresses :
                current_state'[m].reachable => current_state[m].reachable]_vars

UserSubnetExploited ==
    /\ last.op = "step"
    /\ last.action.type = "exploit"
    /\ last.success
    /\ last.action.target = <<2, 0>>
    /\ ~current_state[<<2, 1>>].compromised
    /\ current_state[<<2, 1>>].reachable
    /\ current_state[<<3, 0>>].reachable
    /\ ~current_state[<<4, 0>>].reachable

\* C8: within an episode the reachable flag and the compromised flag of
\* every address, once true, stay true over every step.
FlagsMonotonicWithinEpisode ==
    [][IsStep =>
         \A m \in Addresses :
            /\ current_state[m].reachable => current_state'[m].reachable
            /\ current_state[m].compromised => current_state'[m].compromised]_vars

DeepExploitKeepsFlags ==
    /\ last.op = "step"
    /\ last.action.type = "exploit"
    /\ last.success
    /\ last.action.target = <<3, 0>>
    /\ current_state[<<0, 0>>].compromised
    /\ current_state[<<0, 0>>].reachable
    /\ current_state[<<1, 0>>].reachable

\* C9: reset() always yields the initial observation: nothing compromised,
\* every belief unknown, reachable exactly the addresses of the exposed subnet.
ResetYieldsInitialObservation ==
    ret.op = "reset" =>
        /\ Returned = InitialObservation
        /\ current_state = InitialObservation
        /\ ~ret.obs.alias

ResetAfterEarlierEpisodes ==
    /\ ret.op = "reset"
    /\ reset_count >= 3
    /\ Returned[<<0, 0>>].reachable
    /\ ~Returned[<<1, 0>>].reachable

\* C10: the network ground truth is the same after any sequence of steps and
\* resets as right after construction.
NetworkNeverChanges == network = Network

CompromiseRecordedInObservationOnly ==
    /\ ret.op = "step"
    /\ reset_count > 1
    /\ current_state[SensitiveAddress].compromised
    /\ paid[SensitiveAddress] = 1
    /\ network.machines[SensitiveAddress].value = R_SENSITIVE

\* C11: perform_action on an out-of-range subnet id, on a host id that does
\* not exist in a valid subnet, or on an exploit whose service index is
\* outside [0, num_services) raises an AssertionError and returns no outcome.
MalformedActionRaises ==
    (last.op = "perform_action" /\
       (\/ last.action.target[1] < 0
        \/ last.action.target[1] >= Len(network.subnets)
        \/ last.action.target \notin DOMAIN network.machines
        \/ (last.action.type = "exploit" /\
              (last.action.service < 0 \/ last.action.service >= NumServices))))
    => (ret.raised = "AssertionError" /\ "outcome" \notin DOMAIN ret)

InvalidServiceRaised ==
    /\ last.op = "perform_action"
    /\ last.action.type = "exploit"
    /\ last.action.target = <<0, 0>>
    /\ last.action.service = NumServices + 1
    /\ ret.raised = "AssertionError"

SubnetIds == 0 .. (Len(network.subnets) - 1)

\* The user subnets below the first one (subnet 2).
DeepSubnets == {s \in SubnetIds : s > 2}

\* The lower-numbered subnets a subnet is connected to.
LowerNeighbours(s) == {p \in 0 .. (s - 1) : subnets_connected(network, p, s)}

\* The subnet a deep subnet hangs from.
ParentOf(s) == CHOOSE p \in LowerNeighbours(s) : \A q \in LowerNeighbours(s) : p <= q

\* C13: on every generated network the connectivity query is reflexive and
\* symmetric: a subnet is connected to itself, and a is connected to b exactly
\* when b is connected to a.
ConnectedReflexiveSymmetric ==
    \A a \in SubnetIds : \A b \in SubnetIds :
        /\ subnets_connected(network, a, a)
        /\ subnets_connected(network, a, b) = subnets_connected(network, b, a)

DeepSubnetGenerated ==
    /\ last.op = "generate"
    /\ 5 \in SubnetIds
    /\ subnets_connected(network, 5, 3)
    /\ subnets_connected(network, 3, 5)
    /\ ~subnets_connected(network, 5, 4)

\* C17: in the generated network of 20 machines there are 6 subnets; subnet 0
\* is exposed; subnets 0, 1 and 2 are fully connected; subnets 0 and 1 are
\* connected to no subnet beyond 2; 3 and 4 are each connected to 2, 5 is
\* connected to 3, and 3-4 and 4-5 are not connected.
TwentyMachineTopology ==
    NumMachines(network) = 20 =>
        /\ Len(network.subnets) = 6
        /\ subnet_exposed(network, 0)
        /\ \A a \in 0 .. 2 : \A b \in 0 .. 2 : subnets_connected(network, a, b)
        /\ \A a \in 0 .. 1 : \A b \in 3 .. 5 :
              /\ ~subnets_connected(network, a, b)
              /\ ~subnets_connected(network, b, a)
        /\ subnets_connected(network, 2, 3) /\ subnets_connected(network, 3, 2)
        /\ subnets_connected(network, 2, 4) /\ subnets_connected(network, 4, 2)
        /\ subnets_connected(network, 3, 5) /\ subnets_connected(network, 5, 3)
        /\ ~subnets_connected(network, 3, 4) /\ ~subnets_connected(network, 4, 3)
        /\ ~subnets_connected(network, 4, 5) /\ ~subnets_connected(network, 5, 4)

TwentyMachinesGenerated ==
    /\ last.op = "generate"
    /\ last.num_machines = 20
    /\ NumMachines(network) = 20
    /\ network.subnets = <<1, 1, 5, 5, 5, 3>>

\* C18 as stated: two deep user subnets with the same parent are connected to
\* each other, and two deep user subnets that are neither siblings nor parent
\* and child are not connected.
SiblingsConnectedBranchesNot ==
    \A a \in DeepSubnets : \A b \in DeepSubnets \ {a} :
        /\ ParentOf(a) = ParentOf(b) => subnets_connected(network, a, b)
        /\ (ParentOf(a) # ParentOf(b) /\ ParentOf(a) # b /\ ParentOf(b) # a)
              => ~subnets_connected(network, a, b)

\* C18: every deep user subnet is connected to exactly one lower-numbered
\* subnet, its parent; two distinct deep user subnets are connected exactly
\* when one is the parent of the other, so subnets sharing a parent are not
\* connected to each other, and neither are subnets of different branches.
DeepSubnetsConnectedAlongTreeOnly ==
    /\ \A a \in DeepSubnets : Cardinality(LowerNeighbours(a)) = 1
    /\ \A a \in DeepSubnets : \A b \in DeepSubnets \ {a} :
          subnets_connected(network, a, b) <=> (ParentOf(a) = b \/ ParentOf(b) = a)

SiblingsGenerated ==
    /\ last.op = "generate"
    /\ {3, 4, 5} \subseteq DeepSubnets
    /\ ParentOf(3) = ParentOf(4)
    /\ ~subnets_connected(network, 3, 4)
    /\ ParentOf(5) = 3
    /\ ~subnets_connected(network, 4, 5)

RECURSIVE WithinHops(_, _)
\* The subnets some exposed subnet leads to in at most k hops.
WithinHops(matrix, k) ==
    IF k = 0 THEN ExposedRows(matrix)
    ELSE LET near == WithinHops(matrix, k - 1)
         IN  near \cup {c \in 0 .. (Len(matrix) - 1) :
                          \E p \in near : matrix[p + 1][c + 2] = 1}

\* The least number of hops from an exposed subnet to subnet s.
MinHops(matrix, s) ==
    IF s \notin WithinHops(matrix, Len(matrix)) THEN Unreached
    ELSE CHOOSE k \in 0 .. Len(matrix) :
            /\ s \in WithinHops(matrix, k)
            /\ \A j \in 0 .. (k - 1) : s \notin WithinHops(matrix, j)

\* C19: min_subnet_depth gives every subnet the least number of hops from an
\* exposed subnet: an exposed subnet gets 0, every other subnet gets 1 plus
\* the smallest depth among the subnets adjacent to it, and a subnet no
\* exposed subnet leads to gets no depth.
DepthIsMinimumHops ==
    ret.op = "min_subnet_depth" =>
        LET matrix == last.topology
            depths   == ret.depths
            ids      == 0 .. (Len(matrix) - 1)
        IN  /\ Len(depths) = Len(matrix)
            /\ \A s \in ids :
                 LET near == {depths[p + 1] : p \in
                                {q \in ids \ {s} : /\ matrix[q + 1][s + 2] = 1
                                                   /\ depths[q + 1] # Unreached}}
                 IN  /\ depths[s + 1] = MinHops(matrix, s)
                     /\ s \in ExposedRows(matrix) => depths[s + 1] = 0
                     /\ (s \notin ExposedRows(matrix) /\ near = {})
                           => depths[s + 1] = Unreached
                     /\ (s \notin ExposedRows(matrix) /\ near # {})
                           => \E d \in near : /\ \A e \in near : d <= e
                                              /\ depths[s + 1] = d + 1

TestDepthsComputed ==
    /\ ret.op = "min_subnet_depth"
    /\ last.topology = TestTopology
    /\ ret.depths = <<0, 1, 1, 1, 0, 2, 2>>

\* An exploit of a reachable target whose outcome is success or failure.
IsExploitOfReachable == IsStep /\ IsExploit /\ current_state[Target].reachable

\* C15: an unsuccessful exploit of a reachable target sets the belief for the
\* attacked service of the target to absent and changes nothing else in the
\* observation: the target's other beliefs and flags and every other address
\* stay as they were, and the reward is 0 - cost.
FailedExploitChangesOneBelief ==
    [][(IsExploitOfReachable /\ ~last'.success) =>
          /\ current_state' =
               [current_state EXCEPT
                  ![Target].service_info[last'.action.service + 1] = "absent"]
          /\ Returned' = current_state'
          /\ ret'.reward = 0 - Cost]_vars

FailedExploitOnKnownTarget ==
    /\ last.op = "step"
    /\ last.action.type = "exploit"
    /\ last.acted
    /\ ~last.success
    /\ current_state[last.action.target].service_info[last.action.service + 1] = "absent"
    /\ \E s \in 1 .. NumServices :
          current_state[last.action.target].service_info[s] = "present"
    /\ current_state[last.action.target].compromised
    /\ \E m \in Addresses \ {last.action.target} : current_state[m].compromised

\* C16: a successful exploit of a reachable target sets every service belief
\* of the target to the ground truth and marks the target compromised; the
\* service beliefs and the compromised flag of every other address stay as
\* they were.
SuccessfulExploitRevealsAll ==
    [][(IsExploitOfReachable /\ last'.success) =>
          /\ current_state'[Target].service_info = TrueBeliefs(Target)
          /\ current_state'[Target].compromised
          /\ \A m \in Addresses \ {Target} :
                /\ current_state'[m].service_info = current_state[m].service_info
                /\ current_state'[m].compromised = current_state[m].compromised
          /\ Returned' = current_state']_vars

ExploitRevealedOtherService ==
    /\ last.op = "step"
    /\ last.action.type = "exploit"
    /\ last.acted
    /\ last.success
    /\ current_state[last.action.target].compromised
    /\ current_state[last.action.target].service_info = TrueBeliefs(last.action.target)
    /\ \E s \in 1 .. NumServices :
          /\ s # last.action.service + 1
          /\ current_state[last.action.target].service_info[s] = "absent"
    /\ \E m \in Addresses \ {last.action.target} :
          current_state[m].service_info # InitialServiceInfo

\* C20: in every state reached through reset and step, every compromised
\* address is reachable.
CompromisedIsReachable ==
    \A m \in Addresses : current_state[m].compromised => current_state[m].reachable

DeepAddressCompromised ==
    /\ current_state[<<4, 0>>].compromised
    /\ current_state[<<0, 0>>].compromised
    /\ current_state[<<4, 0>>].reachable

\* C14: an exploit of a reachable target that fails although the attacked
\* service is vulnerable leaves the belief for the attacked service of the
\* target as it was before the step.
MissKeepsBelief ==
    [][(IsExploitOfReachable /\ ~last'.success
          /\ Vulnerable(Target, last'.action.service)) =>
          current_state'[Target].service_info[last'.action.service + 1]
            = current_state[Target].service_info[last'.action.service + 1]]_vars

\* C21: in every state reached through reset and step, each reachable address
\* lies in an exposed subnet or in a subnet connected to the subnet of some
\* compromised address.
ReachableOnlyThroughCompromised ==
    \A m \in Addresses :
        current_state[m].reachable =>
            \/ subnet_exposed(network, m[1])
            \/ \E c \in Addresses :
                  /\ current_state[c].compromised
                  /\ subnets_connected(network, c[1], m[1])

InnerSubnetReachedOuterNot ==
    /\ current_state[<<3, 0>>].reachable
    /\ ~subnet_exposed(network, 3)
    /\ current_state[<<2, 0>>].compromised
    /\ ~current_state[<<4, 0>>].reachable

\* C22: with deterministic exploits every belief that is not unknown agrees
\* with the ground truth (present only for a vulnerable service, absent only
\* for one that is not) and a compromised address has no unknown belief; a
\* belief of absent for a vulnerable service occurs only with a success
\* probability below 1.0, where a missed exploit records it.
BeliefsAgreeWithDeterministicExploits ==
    \A m \in Addresses : \A s \in 1 .. NumServices :
        LET belief == current_state[m].service_info[s] IN
        /\ exploit_probs = 100 =>
              /\ belief = "present" => Vulnerable(m, s - 1)
              /\ belief = "absent" => ~Vulnerable(m, s - 1)
              /\ current_state[m].compromised => belief # "unknown"
        /\ (belief = "absent" /\ Vulnerable(m, s - 1)) => exploit_probs < 100

AbsentRecordedForVulnerableService ==
    /\ exploit_probs < 100
    /\ last.op = "step"
    /\ last.action.type = "exploit"
    /\ last.acted
    /\ ~last.success
    /\ Vulnerable(last.action.target, last.action.service)
    /\ current_state[last.action.target].service_info[last.action.service + 1] = "absent"
    /\ \E s \in 1 .. NumServices :
          /\ s # last.action.service + 1
          /\ current_state[last.action.target].service_info[s] # "unknown"

====
